---- MODULE Spec2Model ----
(***************************************************************************)
(* Model of the pod-manager controller (src/controller.py).                *)
(*                                                                         *)
(* The container engine (the docker client) is an external collaborator:   *)
(* every call the controller makes to it is recorded, and its outcome      *)
(* (success, NotFound, APIError, any other Exception) is an input of the   *)
(* operation.  The controller's methods are operators that compute, from   *)
(* the arguments and the engine's outcomes, the value returned, whether    *)
(* an exception leaves the method, and the engine calls issued.  Two       *)
(* specifications use them: Spec is a run of main(), SpecApi calls the     *)
(* methods and the loader directly, as the unit tests do.                  *)
(***************************************************************************)
EXTENDS Integers, Sequences, FiniteSets, TLC

VARIABLES
    pc,           \* main: position in main()
    file,         \* main: what is at the DEPLOYMENT_CONFIG path
    clientOk,     \* main: controller constructed (docker.from_env succeeded)
    deployments,  \* main: the list load_deployments_from_file returned
    idx,          \* main: index of the next entry of the for loop (1-based)
    applied,      \* main: one record per deploy_container call of the loop
    log,          \* main: every engine call issued so far, in order
    containers,   \* main: the list list_containers returned
    sleeps,       \* main: completed time.sleep(10) calls of the idle loop
    exitStatus,   \* main: process exit status, -1 while running
    exitCause,    \* main: "none", "init_failed", "exception", "interrupt", "shutdown"
    opName,       \* api: the method called last
    inp,          \* api: its arguments and the engine's outcomes
    ret,          \* api: the value it returned
    raised,       \* api: the exception that left it, "none" if it returned
    calls         \* api: the engine calls it issued, in order

mainVars == <<pc, file, clientOk, deployments, idx, applied, log, containers,
              sleeps, exitStatus, exitCause>>
apiVars == <<opName, inp, ret, raised, calls>>
vars == <<pc, file, clientOk, deployments, idx, applied, log, containers,
          sleeps, exitStatus, exitCause, opName, inp, ret, raised, calls>>

(***************************************************************************)
(* Bounds of the model.                                                    *)
(***************************************************************************)
MaxDeployments == 2   \* longest JSON array in the configuration file
MaxRecords == 2       \* longest listing the engine returns
MaxSleeps == 2        \* idle-loop iterations that are told apart

(***************************************************************************)
(* Program constants.                                                      *)
(***************************************************************************)
IdPrefixLen == 12     \* the [:12] slices
DefaultTail == 100    \* get_container_logs(tail=100)

(***************************************************************************)
(* Python values.  Strings that the code slices or decodes are sequences   *)
(* of character codes; strings it only passes along are TLA+ strings.      *)
(***************************************************************************)
None == "<None>"

PyNone == [ty |-> "None", s |-> <<>>, b |-> FALSE, l |-> <<>>]
PyStr(str) == [ty |-> "str", s |-> str, b |-> FALSE, l |-> <<>>]
PyBool(bool) == [ty |-> "bool", s |-> <<>>, b |-> bool, l |-> <<>>]
PyList(list) == [ty |-> "list", s |-> <<>>, b |-> FALSE, l |-> list]

Min(a, b) == IF a <= b THEN a ELSE b

\* s[:n]
Slice(s, n) == SubSeq(s, 1, Min(n, Len(s)))

\* `if x:` / `if not x:` on a JSON string or null
Truthy(v) == v # None /\ v # ""

(***************************************************************************)
(* Outcomes of one engine call.                                            *)
(***************************************************************************)
Outcomes == {"ok", "NotFound", "APIError", "Exception"}
Failures == Outcomes \ {"ok"}

(***************************************************************************)
(* JSON values of the configuration file.  An object is a dictionary: a    *)
(* function from the keys it has to their values (null is None); a scalar  *)
(* stands for any value that is neither an object nor an array (a number,  *)
(* a string, true, null).                                                  *)
(***************************************************************************)
OptionKeys == {"environment", "ports", "command", "volumes"}

EmptyDict == [k \in {} |-> None]

JsonObject(d) == [t |-> "dict", d |-> d, items |-> <<>>]
JsonScalar == [t |-> "scalar", d |-> EmptyDict, items |-> <<>>]
JsonArray(items) == [t |-> "list", d |-> EmptyDict, items |-> items]

\* dict.get(k): the value, None when the key is absent
Get(config, k) == IF k \in DOMAIN config.d THEN config.d[k] ELSE None

CfgNginx == JsonObject([image |-> "nginx:alpine", name |-> "app1"])
CfgRedis == JsonObject([image |-> "redis:alpine", environment |-> "env", ports |-> "ports"])
CfgFull ==
    JsonObject([image |-> "nginx:alpine", name |-> "", environment |-> "env",
                ports |-> "ports", command |-> "command", volumes |-> "volumes"])
CfgNoImage == JsonObject([name |-> "app2", command |-> "command"])
CfgEmptyImage == JsonObject([image |-> "", name |-> "app3"])
CfgNullImage == JsonObject([image |-> None, volumes |-> "volumes"])

Objects == {CfgNginx, CfgRedis, CfgFull, CfgNoImage, CfgEmptyImage, CfgNullImage}
Entries == Objects \cup {JsonScalar}

(***************************************************************************)
(* Strings the code slices: container and image identifiers, image tags.   *)
(***************************************************************************)
IdShort == <<1, 2, 3>>
IdTwelve == [i \in 1..IdPrefixLen |-> i]
IdLongA == [i \in 1..(IdPrefixLen + 2) |-> i]
IdLongB == [i \in 1..(IdPrefixLen + 2) |-> IF i <= IdPrefixLen THEN i ELSE i + 10]
Ids == {IdShort, IdTwelve, IdLongA, IdLongB}

TagShort == <<7, 8>>
TagOther == <<9>>
TagLong == [i \in 1..(IdPrefixLen + 1) |-> 20 + i]

(***************************************************************************)
(* Engine calls.  One record per call: the operation, its positional       *)
(* argument ("" when it has none) and its keyword arguments.               *)
(***************************************************************************)
Call(op, arg, kwargs) == [op |-> op, arg |-> arg, kwargs |-> kwargs]

PullCall(image) == Call("pull", image, EmptyDict)
RunCall(container_config) == Call("run", "", container_config)
ListCall(all_containers) == Call("list", "", [all |-> all_containers])
GetCall(container_id) == Call("get", container_id, EmptyDict)
StopCall == Call("stop", "", EmptyDict)
RemoveCall(force) == Call("remove", "", [force |-> force])
LogsCall(tail) == Call("logs", "", [tail |-> tail])

\* What a method did: the value returned, the exception that left it
\* ("none" when it returned), the engine calls it issued.
Result(value, exc, issued) == [ret |-> value, raised |-> exc, calls |-> issued]

\* container_config of deploy_container: image and detach always, name when
\* truthy, each option key when the configuration has it.
ContainerConfig(config, image, name) ==
    [k \in {"image", "detach"}
             \cup (IF Truthy(name) THEN {"name"} ELSE {})
             \cup (DOMAIN config.d \cap OptionKeys) |->
        IF k = "image" THEN image
        ELSE IF k = "detach" THEN TRUE
        ELSE IF k = "name" THEN name
        ELSE config.d[k]]

(***************************************************************************)
(* deploy_container.  pullOut and runOut are the outcomes of images.pull   *)
(* and containers.run, engineId the id of the container run returns.       *)
(***************************************************************************)
\* Variant: the `if not image` check is missing.
DeployContainerNoImageCheck(config, pullOut, runOut, engineId) ==
    IF config.t # "dict"
    THEN Result(PyNone, "none", <<>>)
    ELSE LET image == Get(config, "image")
             name == Get(config, "name")
             cc == ContainerConfig(config, image, name)
             issued == <<PullCall(image), RunCall(cc)>>
         IN IF runOut = "ok"
            THEN Result(PyStr(engineId), "none", issued)
            ELSE Result(PyNone, "none", issued)

\* Variant: the logged short id is returned instead of the full one.
DeployContainerShortId(config, pullOut, runOut, engineId) ==
    IF config.t # "dict"
    THEN Result(PyNone, "none", <<>>)
    ELSE LET image == Get(config, "image")
             name == Get(config, "name")
             cc == ContainerConfig(config, image, name)
             issued == <<PullCall(image), RunCall(cc)>>
         IN IF ~Truthy(image)
            THEN Result(PyNone, "none", <<>>)
            ELSE IF runOut = "ok"
                 THEN Result(PyStr(Slice(engineId, IdPrefixLen)), "none", issued)
                 ELSE Result(PyNone, "none", issued)

\* Variant: a failed pull is not caught on its own and ends the deployment.
DeployContainerPullFatal(config, pullOut, runOut, engineId) ==
    IF config.t # "dict"
    THEN Result(PyNone, "none", <<>>)
    ELSE LET image == Get(config, "image")
             name == Get(config, "name")
             cc == ContainerConfig(config, image, name)
             issued == <<PullCall(image), RunCall(cc)>>
         IN IF ~Truthy(image)
            THEN Result(PyNone, "none", <<>>)
            ELSE IF pullOut # "ok"
                 THEN Result(PyNone, "none", <<PullCall(image)>>)
                 ELSE IF runOut = "ok"
                      THEN Result(PyStr(engineId), "none", issued)
                      ELSE Result(PyNone, "none", issued)

DeployContainer(config, pullOut, runOut, engineId) ==
    IF config.t # "dict"
    THEN \* config.get raises AttributeError, caught by `except Exception`
         Result(PyNone, "none", <<>>)
    ELSE LET image == Get(config, "image")
             name == Get(config, "name")
             cc == ContainerConfig(config, image, name)
             \* the pull's own try/except swallows every pullOut
             issued == <<PullCall(image), RunCall(cc)>>
         IN IF ~Truthy(image)
            THEN Result(PyNone, "none", <<>>)
            ELSE IF runOut = "ok"
                 THEN Result(PyStr(engineId), "none", issued)
                 ELSE \* APIError or any other Exception: both handlers return None
                      Result(PyNone, "none", issued)

(***************************************************************************)
(* list_containers.  listOut is the outcome of containers.list, records    *)
(* the sequence it returns, failAt the index of the record whose           *)
(* attributes cannot be read (reading container.image asks the engine), 0  *)
(* when all can.  Attribute reads are not recorded as calls.               *)
(***************************************************************************)
EngineRecord(id, name, tags, imageId, status) ==
    [id |-> id, name |-> name, tags |-> tags, imageId |-> imageId, status |-> status]

RecNginx == EngineRecord(IdLongA, "nginx", <<TagShort, TagOther>>, IdLongB, "running")
RecRedis == EngineRecord(IdTwelve, "redis", <<TagLong, TagShort>>, IdShort, "exited")
RecUntagged == EngineRecord(IdLongB, "orphan", <<>>, IdLongA, "created")
Records == {RecNginx, RecRedis, RecUntagged}

RECURSIVE SeqsUpTo(_, _)
SeqsUpTo(S, n) ==
    IF n = 0 THEN {<<>>}
    ELSE LET shorter == SeqsUpTo(S, n - 1)
         IN shorter \cup {Append(q, x) : q \in {r \in shorter : Len(r) = n - 1}, x \in S}

\* Variant: every image reference is cut to the short length, tags too.
ContainerInfoCutTag(container) ==
    [id |-> Slice(container.id, IdPrefixLen),
     name |-> container.name,
     image |-> IF container.tags # <<>>
               THEN Slice(container.tags[1], IdPrefixLen)
               ELSE Slice(container.imageId, IdPrefixLen),
     status |-> container.status]

\* The `info` dictionary built for one container.
ContainerInfo(container) ==
    [id |-> Slice(container.id, IdPrefixLen),
     name |-> container.name,
     image |-> IF container.tags # <<>>
               THEN container.tags[1]
               ELSE Slice(container.imageId, IdPrefixLen),
     status |-> container.status]

\* Variant: the records projected before the failing one are returned.
ListContainersPartial(all_containers, listOut, records, failAt) ==
    LET issued == <<ListCall(all_containers)>>
        upTo == IF failAt \in 1..Len(records) THEN failAt - 1 ELSE Len(records)
    IN IF listOut # "ok"
       THEN Result(PyList(<<>>), "none", issued)
       ELSE Result(PyList([i \in 1..upTo |-> ContainerInfo(records[i])]),
                   "none", issued)

ListContainers(all_containers, listOut, records, failAt) ==
    LET issued == <<ListCall(all_containers)>>
    IN IF listOut # "ok"
       THEN Result(PyList(<<>>), "none", issued)
       ELSE IF failAt \in 1..Len(records)
            THEN \* raised inside the for loop: container_info is dropped
                 Result(PyList(<<>>), "none", issued)
            ELSE Result(PyList([i \in 1..Len(records) |-> ContainerInfo(records[i])]),
                        "none", issued)

(***************************************************************************)
(* stop_container and remove_container.  getOut is the outcome of          *)
(* containers.get, actOut the outcome of container.stop / remove.          *)
(***************************************************************************)
StopContainer(container_id, getOut, actOut) ==
    IF getOut # "ok"
    THEN Result(PyBool(FALSE), "none", <<GetCall(container_id)>>)
    ELSE IF actOut # "ok"
         THEN Result(PyBool(FALSE), "none", <<GetCall(container_id), StopCall>>)
         ELSE Result(PyBool(TRUE), "none", <<GetCall(container_id), StopCall>>)

\* Variant: the container is always removed with force.
RemoveContainerAlwaysForce(container_id, force, getOut, actOut) ==
    IF getOut # "ok"
    THEN Result(PyBool(FALSE), "none", <<GetCall(container_id)>>)
    ELSE IF actOut # "ok"
         THEN Result(PyBool(FALSE), "none", <<GetCall(container_id), RemoveCall(TRUE)>>)
         ELSE Result(PyBool(TRUE), "none", <<GetCall(container_id), RemoveCall(TRUE)>>)

RemoveContainer(container_id, force, getOut, actOut) ==
    IF getOut # "ok"
    THEN Result(PyBool(FALSE), "none", <<GetCall(container_id)>>)
    ELSE IF actOut # "ok"
         THEN Result(PyBool(FALSE), "none", <<GetCall(container_id), RemoveCall(force)>>)
         ELSE Result(PyBool(TRUE), "none", <<GetCall(container_id), RemoveCall(force)>>)

(***************************************************************************)
(* get_container_logs.  bytes is what container.logs returns.  The decoder *)
(* handles one- and two-byte UTF-8 sequences, which covers LogBytes; any   *)
(* other lead byte there (255) is invalid in UTF-8.                        *)
(***************************************************************************)
LogAscii == <<104, 105>>
LogLatin == <<195, 169, 33>>
LogBad == <<104, 255>>
LogCut == <<195>>
LogBytes == {<<>>, LogAscii, LogLatin, LogBad, LogCut}

RECURSIVE Utf8Decode(_)
Utf8Decode(bytes) ==
    IF bytes = <<>> THEN [ok |-> TRUE, s |-> <<>>]
    ELSE IF bytes[1] < 128
    THEN LET rest == Utf8Decode(Tail(bytes))
         IN [ok |-> rest.ok, s |-> <<bytes[1]>> \o rest.s]
    ELSE IF bytes[1] \in 194..223 /\ Len(bytes) >= 2 /\ bytes[2] \in 128..191
    THEN LET rest == Utf8Decode(Tail(Tail(bytes)))
         IN [ok |-> rest.ok, s |-> <<(bytes[1] - 192) * 64 + (bytes[2] - 128)>> \o rest.s]
    ELSE [ok |-> FALSE, s |-> <<>>]

GetContainerLogs(container_id, tail, getOut, actOut, bytes) ==
    IF getOut # "ok"
    THEN Result(PyNone, "none", <<GetCall(container_id)>>)
    ELSE IF actOut # "ok"
         THEN Result(PyNone, "none", <<GetCall(container_id), LogsCall(tail)>>)
         ELSE LET text == Utf8Decode(bytes)
              IN IF text.ok
                 THEN Result(PyStr(text.s), "none", <<GetCall(container_id), LogsCall(tail)>>)
                 ELSE \* UnicodeDecodeError, caught by `except Exception`
                      Result(PyNone, "none", <<GetCall(container_id), LogsCall(tail)>>)

(***************************************************************************)
(* load_deployments_from_file.  What is at the path: nothing, something    *)
(* open() refuses (a directory, a file without read permission), text that *)
(* is not JSON, or a JSON value.                                           *)
(***************************************************************************)
FileMissing == [kind |-> "missing", data |-> JsonScalar]
FileUnreadable == [kind |-> "unreadable", data |-> JsonScalar]
FileMalformed == [kind |-> "malformed", data |-> JsonScalar]
FileJson(data) == [kind |-> "json", data |-> data]

JsonValues == Entries \cup {JsonArray(q) : q \in SeqsUpTo(Entries, MaxDeployments)}
Files == {FileMissing, FileUnreadable, FileMalformed} \cup {FileJson(v) : v \in JsonValues}

\* os.path.exists(config_file)
PathExists(f) == f.kind # "missing"

LoadDeploymentsFromFile(f) ==
    IF f.kind = "missing"
    THEN Result(PyList(<<>>), "none", <<>>)            \* except FileNotFoundError
    ELSE IF f.kind = "unreadable"
    THEN Result(PyNone, "OSError", <<>>)               \* no handler matches
    ELSE IF f.kind = "malformed"
    THEN Result(PyList(<<>>), "none", <<>>)            \* except json.JSONDecodeError
    ELSE IF f.data.t = "list"
    THEN Result(PyList(f.data.items), "none", <<>>)
    ELSE Result(PyList(<<f.data>>), "none", <<>>)

(***************************************************************************)
(* SpecApi: the controller's methods and the loader, called directly.      *)
(* Each action is one call: it draws the arguments and the engine's        *)
(* outcomes and records them with what the call did.                       *)
(***************************************************************************)
Targets == {"test123", "app1"}
DefaultForce == FALSE          \* remove_container(force=False)
DefaultAll == FALSE            \* list_containers(all_containers=False)

\* Arguments and engine outcomes of a call: a is the outcome of the first
\* engine call (pull, list, get), b of the second (run, stop, remove, logs);
\* given says whether the caller passed the optional argument (all_containers,
\* force, tail), flag is the boolean passed.
Input(config, a, b, id, target, given, flag, records, failAt, tail, bytes, f) ==
    [config |-> config, a |-> a, b |-> b, id |-> id, target |-> target,
     given |-> given, flag |-> flag, records |-> records, failAt |-> failAt,
     tail |-> tail, bytes |-> bytes, file |-> f]

NoInput == Input(JsonScalar, "ok", "ok", <<>>, "", FALSE, FALSE, <<>>, 0, 0, <<>>, FileMissing)

\* The call returned (or raised): what it did is recorded.
Returned(in, r) ==
    /\ inp' = in
    /\ ret' = r.ret
    /\ raised' = r.raised
    /\ calls' = r.calls

ApiDeploy ==
    \E config \in Entries, pullOut \in Outcomes, runOut \in Outcomes, id \in Ids :
        /\ opName' = "deploy_container"
        /\ Returned([NoInput EXCEPT !.config = config, !.a = pullOut,
                                    !.b = runOut, !.id = id],
                    DeployContainer(config, pullOut, runOut, id))
        /\ UNCHANGED mainVars

ApiList ==
    \E given \in BOOLEAN, flag \in BOOLEAN, listOut \in Outcomes,
       records \in SeqsUpTo(Records, MaxRecords) :
        \E failAt \in 0..Len(records) :
            /\ opName' = "list_containers"
            /\ Returned([NoInput EXCEPT !.given = given, !.flag = flag, !.a = listOut,
                                        !.records = records, !.failAt = failAt],
                        ListContainers(IF given THEN flag ELSE DefaultAll,
                                       listOut, records, failAt))
            /\ UNCHANGED mainVars

ApiStop ==
    \E target \in Targets, getOut \in Outcomes, actOut \in Outcomes :
        /\ opName' = "stop_container"
        /\ Returned([NoInput EXCEPT !.target = target, !.a = getOut, !.b = actOut],
                    StopContainer(target, getOut, actOut))
        /\ UNCHANGED mainVars

ApiRemove ==
    \E target \in Targets, given \in BOOLEAN, flag \in BOOLEAN,
       getOut \in Outcomes, actOut \in Outcomes :
        /\ opName' = "remove_container"
        /\ Returned([NoInput EXCEPT !.target = target, !.given = given, !.flag = flag,
                                    !.a = getOut, !.b = actOut],
                    RemoveContainer(target, IF given THEN flag ELSE DefaultForce,
                                    getOut, actOut))
        /\ UNCHANGED mainVars

ApiLogs ==
    \E target \in Targets, given \in BOOLEAN, getOut \in Outcomes,
       actOut \in Outcomes, bytes \in LogBytes :
        /\ opName' = "get_container_logs"
        /\ Returned([NoInput EXCEPT !.target = target, !.given = given,
                                    !.tail = IF given THEN 5 ELSE DefaultTail,
                                    !.a = getOut, !.b = actOut, !.bytes = bytes],
                    GetContainerLogs(target, IF given THEN 5 ELSE DefaultTail,
                                     getOut, actOut, bytes))
        /\ UNCHANGED mainVars

ApiLoad ==
    \E f \in Files :
        /\ opName' = "load_deployments_from_file"
        /\ Returned([NoInput EXCEPT !.file = f], LoadDeploymentsFromFile(f))
        /\ UNCHANGED mainVars

InitApi ==
    /\ pc = "off"
    /\ file = FileMissing
    /\ clientOk = TRUE
    /\ deployments = <<>>
    /\ idx = 1
    /\ applied = <<>>
    /\ log = <<>>
    /\ containers = <<>>
    /\ sleeps = 0
    /\ exitStatus = -1
    /\ exitCause = "none"
    /\ opName = "none"
    /\ inp = NoInput
    /\ ret = PyNone
    /\ raised = "none"
    /\ calls = <<>>

NextApi == ApiDeploy \/ ApiList \/ ApiStop \/ ApiRemove \/ ApiLogs \/ ApiLoad

SpecApi == InitApi /\ [][NextApi]_vars

(***************************************************************************)
(* Spec: one run of main().  The process is at pc; an interrupt (SIGINT)   *)
(* may arrive at any position and is handled only in the idle loop.        *)
(***************************************************************************)
InitOutcomes == {"ok", "DockerException", "Exception"}

\* What the engine may answer to main's one listing.
MainListings == {<<>>, <<RecNginx, RecUntagged>>}

\* An exception nobody catches ends the process with status 1.
Crash ==
    /\ pc' = "exit"
    /\ exitStatus' = 1
    /\ exitCause' = "exception"

\* controller = PodManagerController(), and sys.exit(1) when it raises
MainInit ==
    /\ pc = "start"
    /\ \E out \in InitOutcomes :
        IF out = "ok"
        THEN /\ clientOk' = TRUE
             /\ pc' = "config"
             /\ UNCHANGED <<exitStatus, exitCause>>
        ELSE /\ pc' = "exit"
             /\ exitStatus' = 1
             /\ exitCause' = "init_failed"
             /\ UNCHANGED clientOk
    /\ UNCHANGED <<file, deployments, idx, applied, log, containers, sleeps>>
    /\ UNCHANGED apiVars

\* if os.path.exists(config_file): deployments = load_deployments_from_file(...)
MainLoadConfig ==
    /\ pc = "config"
    /\ IF PathExists(file)
       THEN LET r == LoadDeploymentsFromFile(file)
            IN IF r.raised # "none"
               THEN Crash /\ UNCHANGED deployments
               ELSE /\ deployments' = r.ret.l
                    /\ pc' = IF r.ret.l = <<>> THEN "list" ELSE "loop"
                    /\ UNCHANGED <<exitStatus, exitCause>>
       ELSE /\ pc' = "list"
            /\ UNCHANGED <<deployments, exitStatus, exitCause>>
    /\ UNCHANGED <<file, clientOk, idx, applied, log, containers, sleeps>>
    /\ UNCHANGED apiVars

\* One iteration of `for deployment in deployments`.
MainDeploy ==
    /\ pc = "loop"
    /\ idx <= Len(deployments)
    /\ LET deployment == deployments[idx]
       IN IF deployment.t # "dict"
          THEN \* deployment.get('name', 'unnamed') raises AttributeError
               Crash /\ UNCHANGED <<idx, applied, log>>
          ELSE \E pullOut \in Outcomes, runOut \in Outcomes, id \in Ids :
                LET r == DeployContainer(deployment, pullOut, runOut, id)
                IN /\ log' = log \o r.calls
                   /\ IF r.raised # "none"
                      THEN Crash /\ UNCHANGED <<idx, applied>>
                      ELSE /\ applied' = Append(applied,
                                                [entry |-> deployment, ret |-> r.ret,
                                                 calls |-> r.calls])
                           /\ idx' = idx + 1
                           /\ pc' = IF idx = Len(deployments) THEN "list" ELSE "loop"
                           /\ UNCHANGED <<exitStatus, exitCause>>
    /\ UNCHANGED <<file, clientOk, deployments, containers, sleeps>>
    /\ UNCHANGED apiVars

\* containers = controller.list_containers(all_containers=True), then logged
MainList ==
    /\ pc = "list"
    /\ \E listOut \in Outcomes, records \in MainListings :
        \E failAt \in 0..Len(records) :
            LET r == ListContainers(TRUE, listOut, records, failAt)
            IN /\ log' = log \o r.calls
               /\ IF r.raised # "none"
                  THEN Crash /\ UNCHANGED containers
                  ELSE /\ containers' = r.ret.l
                       /\ pc' = "idle"
                       /\ UNCHANGED <<exitStatus, exitCause>>
    /\ UNCHANGED <<file, clientOk, deployments, idx, applied, sleeps>>
    /\ UNCHANGED apiVars

\* while True: time.sleep(10)
MainSleep ==
    /\ pc = "idle"
    /\ sleeps < MaxSleeps
    /\ sleeps' = sleeps + 1
    /\ UNCHANGED <<pc, file, clientOk, deployments, idx, applied, log, containers,
                   exitStatus, exitCause>>
    /\ UNCHANGED apiVars

\* except KeyboardInterrupt: main returns
MainShutdown ==
    /\ pc = "idle"
    /\ pc' = "exit"
    /\ exitStatus' = 0
    /\ exitCause' = "shutdown"
    /\ UNCHANGED <<file, clientOk, deployments, idx, applied, log, containers, sleeps>>
    /\ UNCHANGED apiVars

\* KeyboardInterrupt before the idle loop: no handler, the process dies of it
MainInterrupted ==
    /\ pc \in {"start", "config", "loop", "list"}
    /\ pc' = "exit"
    /\ exitStatus' = 130
    /\ exitCause' = "interrupt"
    /\ UNCHANGED <<file, clientOk, deployments, idx, applied, log, containers, sleeps>>
    /\ UNCHANGED apiVars

Init ==
    /\ pc = "start"
    /\ file \in Files
    /\ clientOk = FALSE
    /\ deployments = <<>>
    /\ idx = 1
    /\ applied = <<>>
    /\ log = <<>>
    /\ containers = <<>>
    /\ sleeps = 0
    /\ exitStatus = -1
    /\ exitCause = "none"
    /\ opName = "none"
    /\ inp = NoInput
    /\ ret = PyNone
    /\ raised = "none"
    /\ calls = <<>>

Next ==
    \/ MainInit
    \/ MainLoadConfig
    \/ MainDeploy
    \/ MainList
    \/ MainSleep
    \/ MainShutdown
    \/ MainInterrupted

Spec == Init /\ [][Next]_vars

(***************************************************************************)
(* Properties.                                                             *)
(***************************************************************************)
\* Number of calls of one engine operation in a sequence of calls.
CountOp(issued, op) == Cardinality({i \in DOMAIN issued : issued[i].op = op})

\* p is s cut to its first n characters.
IsCutTo(p, s, n) ==
    /\ Len(p) = Min(n, Len(s))
    /\ \A j \in 1..Len(p) : p[j] = s[j]

\* C1: a deployment spec whose image is absent or empty makes
\* deploy_container issue no creation request and return None.
C1_NoImageNoCreation ==
    (opName = "deploy_container" /\ ~Truthy(Get(inp.config, "image")))
        => /\ ret = PyNone
           /\ raised = "none"
           /\ CountOp(calls, "run") = 0

C1_Witness ==
    /\ opName = "deploy_container"
    /\ inp.config = CfgEmptyImage
    /\ inp.b = "ok"
    /\ ret = PyNone
    /\ calls = <<>>

\* C2: when the engine's create-and-start call succeeds, deploy_container
\* returns the full identifier the engine reported, after exactly one
\* creation request.
C2_ReturnsEngineId ==
    (opName = "deploy_container" /\ CountOp(calls, "run") >= 1 /\ inp.b = "ok")
        => /\ ret = PyStr(inp.id)
           /\ CountOp(calls, "run") = 1

C2_Witness ==
    /\ opName = "deploy_container"
    /\ inp.b = "ok"
    /\ inp.id = IdLongA
    /\ ret.ty = "str"
    /\ Len(ret.s) > IdPrefixLen

\* C7: with a non-empty image the pull is requested first and then, whatever
\* the pull's outcome, exactly one creation request for that image; the
\* result is the identifier when creation succeeds and None when it fails.
C7_PullIsBestEffort ==
    (opName = "deploy_container" /\ Truthy(Get(inp.config, "image")))
        => /\ raised = "none"
           /\ Len(calls) = 2
           /\ calls[1] = PullCall(Get(inp.config, "image"))
           /\ calls[2].op = "run"
           /\ calls[2].kwargs["image"] = Get(inp.config, "image")
           /\ ret = IF inp.b = "ok" THEN PyStr(inp.id) ELSE PyNone

C7_Witness ==
    /\ opName = "deploy_container"
    /\ inp.a \in Failures
    /\ inp.b = "ok"
    /\ CountOp(calls, "run") = 1
    /\ ret = PyStr(inp.id)

\* C8: list_containers returns one entry per record the engine returned, in
\* the same order, with the record's name and status, and as image the
\* first tag when there is one, else the image id cut to 12 characters.
C8_ListingProjectsRecords ==
    (opName = "list_containers" /\ inp.a = "ok" /\ inp.failAt = 0)
        => /\ ret.ty = "list"
           /\ Len(ret.l) = Len(inp.records)
           /\ \A i \in 1..Len(inp.records) :
                /\ ret.l[i].name = inp.records[i].name
                /\ ret.l[i].status = inp.records[i].status
                /\ IF Len(inp.records[i].tags) >= 1
                   THEN ret.l[i].image = inp.records[i].tags[1]
                   ELSE IsCutTo(ret.l[i].image, inp.records[i].imageId, IdPrefixLen)

C8_Witness ==
    /\ opName = "list_containers"
    /\ inp.a = "ok"
    /\ inp.failAt = 0
    /\ inp.records = <<RecRedis, RecUntagged>>
    /\ Len(ret.l) = 2
    /\ ret.l[1].image = TagLong
    /\ Len(ret.l[2].image) = IdPrefixLen
    /\ Len(RecUntagged.imageId) > IdPrefixLen

\* C9: when the container is found and the engine call succeeds,
\* stop_container returns True after exactly one stop, and remove_container
\* returns True after exactly one remove whose force flag is the caller's
\* argument, False when none was given.
C9_StopAndRemoveSucceed ==
    /\ (opName = "stop_container" /\ inp.a = "ok" /\ inp.b = "ok")
        => /\ ret = PyBool(TRUE)
           /\ raised = "none"
           /\ calls = <<GetCall(inp.target), StopCall>>
    /\ (opName = "remove_container" /\ inp.a = "ok" /\ inp.b = "ok")
        => /\ ret = PyBool(TRUE)
           /\ raised = "none"
           /\ calls = <<GetCall(inp.target),
                        RemoveCall(IF inp.given THEN inp.flag ELSE FALSE)>>

C9_Witness ==
    /\ opName = "remove_container"
    /\ ~inp.given
    /\ inp.a = "ok"
    /\ inp.b = "ok"
    /\ ret = PyBool(TRUE)
    /\ CountOp(calls, "remove") = 1
    /\ calls[2].kwargs["force"] = FALSE

(***************************************************************************)
(* C5: failures inside the five methods.                                   *)
(***************************************************************************)
Methods == {"deploy_container", "list_containers", "stop_container",
            "remove_container", "get_container_logs"}

\* The method's uniform negative result.
Negative(name) ==
    IF name \in {"deploy_container", "get_container_logs"} THEN PyNone
    ELSE IF name = "list_containers" THEN PyList(<<>>)
    ELSE PyBool(FALSE)

\* The pull of this call was requested and failed.
PullFailed == opName = "deploy_container" /\ Len(calls) >= 1 /\ inp.a \in Failures

\* Something other than the pull failed inside this call.
OtherFailure ==
    \/ opName = "deploy_container" /\ Len(calls) >= 2 /\ inp.b \in Failures
    \/ opName = "list_containers" /\ (inp.a \in Failures \/ inp.failAt >= 1)
    \/ /\ opName \in {"stop_container", "remove_container", "get_container_logs"}
       /\ (inp.a \in Failures \/ inp.b \in Failures)
    \/ opName = "get_container_logs" /\ ~Utf8Decode(inp.bytes).ok

\* C5 as stated: whatever fails inside one of the five methods, at any
\* point, the method returns its negative result and raises nothing.
C5_AnyFailureGivesNegative ==
    (opName \in Methods /\ (PullFailed \/ OtherFailure))
        => (raised = "none" /\ ret = Negative(opName))

\* C5 as amended: none of the five methods ever raises; every failure other
\* than a failed image pull gives the negative result (an empty list, no
\* partial records, for a listing); a failed pull alone does not.
C5_FailureGivesNegativeExceptPull ==
    /\ opName \in Methods => raised = "none"
    /\ (opName \in Methods /\ OtherFailure) => ret = Negative(opName)
    /\ (PullFailed /\ ~OtherFailure) => ret = PyStr(inp.id)

C5_Witness ==
    /\ opName = "list_containers"
    /\ inp.a = "ok"
    /\ Len(inp.records) = 2
    /\ inp.failAt = 2
    /\ ret = PyList(<<>>)

\* C4: load_deployments_from_file never raises; it returns the object in a
\* one-element list, an array as it is, and an empty list for a missing
\* file or malformed JSON.
C4_LoaderNeverRaises ==
    opName = "load_deployments_from_file"
        => /\ raised = "none"
           /\ (inp.file.kind = "json" /\ inp.file.data.t = "dict")
                => ret = PyList(<<inp.file.data>>)
           /\ (inp.file.kind = "json" /\ inp.file.data.t = "list")
                => ret = PyList(inp.file.data.items)
           /\ inp.file.kind \in {"missing", "malformed"} => ret = PyList(<<>>)

(***************************************************************************)
(* Properties of a run of main().                                          *)
(***************************************************************************)
\* The for loop is over: main went past it, or the process ended for a
\* reason other than an interrupt or a failed initialization.
LoopOver ==
    \/ pc \in {"list", "idle"}
    \/ pc = "exit" /\ exitCause \in {"exception", "shutdown"}

\* C3: deploy_container is invoked exactly once per loaded entry, in file
\* order, whatever earlier deployments returned; nothing is stopped or
\* removed.
C3_EveryEntryAppliedInOrder ==
    /\ Len(applied) <= Len(deployments)
    /\ \A i \in 1..Len(applied) : applied[i].entry = deployments[i]
    /\ LoopOver => Len(applied) = Len(deployments)
    /\ CountOp(log, "stop") = 0
    /\ CountOp(log, "remove") = 0

\* C6: the exit status is non-zero exactly when client initialization
\* failed, and then no engine operation was issued; otherwise main reaches
\* the idle loop and leaves it only by the interrupt.
C6_NonZeroExitOnlyOnInitFailure ==
    /\ (pc = "exit" /\ exitCause # "interrupt") => (exitStatus # 0 <=> ~clientOk)
    /\ ~clientOk => log = <<>>
    /\ (pc = "exit" /\ clientOk /\ exitCause # "interrupt") => exitCause = "shutdown"

\* C10: after a successful initialization the engine sees the pulls and
\* creations of the deployments (none without a configuration file), then
\* exactly one listing that includes stopped containers, and nothing once
\* the idle loop is entered.
C10_OrderOfEngineOperations ==
    /\ pc \in {"start", "config", "loop", "list"}
        => \A i \in DOMAIN log : log[i].op \in {"pull", "run"}
    /\ ~PathExists(file) => (CountOp(log, "pull") = 0 /\ CountOp(log, "run") = 0)
    /\ (pc = "idle" \/ (pc = "exit" /\ clientOk /\ exitCause # "interrupt"))
        => /\ Len(log) >= 1
           /\ log[Len(log)] = ListCall(TRUE)
           /\ \A i \in 1..(Len(log) - 1) : log[i].op \in {"pull", "run"}

(***************************************************************************)
(* What does hold of every run of main(), uncaught exceptions included:    *)
(* entries are applied in file order and at most once, each application    *)
(* issues its own pull and creation, the listing comes after all of them   *)
(* and at most once, and a run that is not ended by an uncaught exception  *)
(* or an early interrupt applies every entry and lists exactly once.       *)
(***************************************************************************)
RECURSIVE Flatten(_)
Flatten(seqs) == IF seqs = <<>> THEN <<>> ELSE Head(seqs) \o Flatten(Tail(seqs))

AppliedCalls == Flatten([i \in 1..Len(applied) |-> applied[i].calls])

MainOrderUnlessCrashed ==
    /\ Len(applied) <= Len(deployments)
    /\ \A i \in 1..Len(applied) : applied[i].entry = deployments[i]
    /\ \/ log = AppliedCalls
       \/ log = Append(AppliedCalls, ListCall(TRUE))
    /\ (pc = "idle" \/ exitCause = "shutdown")
        => /\ Len(applied) = Len(deployments)
           /\ log = Append(AppliedCalls, ListCall(TRUE))
    /\ exitStatus = 1 => exitCause \in {"init_failed", "exception"}
    /\ exitCause = "init_failed" <=> (pc = "exit" /\ ~clientOk /\ exitCause # "interrupt")

====
